---- MODULE Spec2Model ----
(***************************************************************************)
(* A model of the retrieval core of the RAG chatbot backend:               *)
(*   app/chunking.py    DocumentChunker                                    *)
(*   app/embeddings.py  DocumentRetriever (FAISS IndexFlatIP wrapper)      *)
(*   app/ingestion.py   PDFProcessor.process_uploaded_pdf                  *)
(*   app/routes.py      the /query, /ingest and /metrics handlers on the   *)
(*                      event loop                                         *)
(*                                                                         *)
(* Text is a sequence of characters; a character is an integer: SPACE is   *)
(* the whitespace character, every other value is a letter.  The 600-word  *)
(* example document of the specification uses the letters 1..600, one per  *)
(* word.  PERIOD is a sentence terminator.  A float is an exact fraction.   *)
(***************************************************************************)
EXTENDS Integers, Sequences, FiniteSets, TLC

VARIABLES
    \* DocumentChunker (chunking.py)
    target_chunk_size,   \* self.target_chunk_size
    overlap_size,        \* self.overlap_size
    document_text,       \* the document handed to the chunker
    chunks,              \* the list the split call returned
    split_outcome,       \* "not_called", "returned", or the exception raised
    chunk_sentences,     \* split_by_sentences: the sentences joined into each chunk
    \* DocumentRetriever (embeddings.py)
    vector_index,        \* self.vector_index: None, or the FAISS index (d, vectors)
    stored_chunks,       \* self.stored_chunks
    chunk_metadata,      \* self.chunk_metadata
    call,                \* the last retriever call and its arguments
    result,              \* what that call returned or raised
    \* The FastAPI application (routes.py), one asyncio event loop
    requests,            \* the requests received: their input, position and locals
    running,             \* the request whose coroutine holds the event loop, or 0
    query_logs,          \* the committed QueryLog rows
    document_logs        \* the committed DocumentLog rows

chunker_vars == <<target_chunk_size, overlap_size, document_text, chunks, split_outcome,
                  chunk_sentences>>
retriever_vars == <<vector_index, stored_chunks, chunk_metadata, call, result>>
server_vars == <<requests, running, query_logs, document_logs>>
vars == <<chunker_vars, retriever_vars, server_vars>>

-----------------------------------------------------------------------------
(* Bounds of the model *)

MaxTextLen == 5      \* characters in a document handed to the chunker
NLetters == 1        \* distinct letters in those documents
MaxTarget == 3       \* non-default target_chunk_size: -MaxTarget..MaxTarget
MaxOverlap == 3      \* non-default overlap_size: -MaxOverlap..MaxOverlap

-----------------------------------------------------------------------------
(* Python helpers *)

SPACE == 0

Min(a, b) == IF a < b THEN a ELSE b
Max(a, b) == IF a > b THEN a ELSE b

\* str.split(): the maximal runs of non-whitespace characters of s[lo..hi], in order.
RECURSIVE SplitRange(_, _, _)
SplitRange(s, lo, hi) ==
    IF lo > hi THEN << >>
    ELSE IF lo = hi THEN (IF s[lo] = SPACE THEN << >> ELSE << <<s[lo]>> >>)
    ELSE LET mid == (lo + hi) \div 2
             L == SplitRange(s, lo, mid)
             R == SplitRange(s, mid + 1, hi)
         IN  IF s[mid] # SPACE /\ s[mid + 1] # SPACE
             THEN SubSeq(L, 1, Len(L) - 1) \o << L[Len(L)] \o R[1] >> \o Tail(R)
             ELSE L \o R

PySplit(s) == SplitRange(s, 1, Len(s))

\* ' '.join(ws[lo..hi])
RECURSIVE JoinRange(_, _, _)
JoinRange(ws, lo, hi) ==
    IF lo > hi THEN << >>
    ELSE IF lo = hi THEN ws[lo]
    ELSE LET mid == (lo + hi) \div 2
         IN  JoinRange(ws, lo, mid) \o <<SPACE>> \o JoinRange(ws, mid + 1, hi)

PyJoin(ws) == JoinRange(ws, 1, Len(ws))

\* str.strip(): without leading and trailing whitespace.
PyStrip(s) ==
    LET solid == {i \in DOMAIN s : s[i] # SPACE}
    IN  IF solid = {} THEN << >>
        ELSE SubSeq(s, CHOOSE i \in solid : \A j \in solid : i <= j,
                       CHOOSE i \in solid : \A j \in solid : i >= j)

\* range(start, stop, step) as a sequence; step = 0 raises ValueError in Python
\* and is guarded by the callers.
PyRange(start, stop, step) ==
    IF step > 0
    THEN [i \in 1..(IF stop > start THEN (stop - start + step - 1) \div step ELSE 0)
              |-> start + (i - 1) * step]
    ELSE [i \in 1..(IF stop < start THEN (start - stop - step - 1) \div (0 - step) ELSE 0)
              |-> start + (i - 1) * step]

\* seq[start:end] for 0 <= start (0-based, end exclusive; a negative end counts
\* from the back).
PySlice(seq, start, end) ==
    LET n == Len(seq)
        e == IF end < 0 THEN Max(n + end, 0) ELSE Min(end, n)
    IN  IF start >= e THEN << >> ELSE SubSeq(seq, start + 1, e)

-----------------------------------------------------------------------------
(* chunking.py: DocumentChunker *)

DEFAULT_TARGET_CHUNK_SIZE == 500
DEFAULT_OVERLAP_SIZE == 50

\* A chunker that forgets the overlap when it steps.
StepSizeNoOverlap(target, overlap) == target

\* step_size = self.target_chunk_size - self.overlap_size
StepSize(target, overlap) == target - overlap

\* The body of the for loop: one window, appended when it is not empty.
ChunkAt(words, start_idx, target) ==
    LET end_idx == start_idx + target
        chunk_words == PySlice(words, start_idx, end_idx)
    IN  IF chunk_words # << >> THEN << PyStrip(PyJoin(chunk_words)) >> ELSE << >>

\* The for loop over range(0, len(words), step_size): the windows in order,
\* the empty ones left out.
WordWindows(words, target, overlap) ==
    LET starts == PyRange(0, Len(words), StepSize(target, overlap))
        all == [i \in DOMAIN starts |-> ChunkAt(words, starts[i], target)]
        kept == SelectSeq(all, LAMBDA c : c # << >>)
    IN  [i \in DOMAIN kept |-> kept[i][1]]

\* split_into_chunks: what it returns, or the ValueError range() raises on a zero step.
split_into_chunks(text, target, overlap) ==
    LET words == PySplit(text)
    IN  IF words = << >> THEN [outcome |-> "returned", chunks |-> << >>]
        ELSE IF StepSize(target, overlap) = 0
             THEN [outcome |-> "ValueError", chunks |-> << >>]
        ELSE [outcome |-> "returned", chunks |-> WordWindows(words, target, overlap)]

\* The documents handed to the chunker: every short text, and the 600-word example.
ShortTexts == UNION {[1..n -> 0..NLetters] : n \in 0..MaxTextLen}
ExampleText == [i \in 1..(2 * 600 - 1) |-> IF i % 2 = 1 THEN (i + 1) \div 2 ELSE SPACE]
Documents == ShortTexts \cup {ExampleText}

\* DocumentChunker.__init__: stores what it is given; the new chunker has split
\* nothing yet.
DocumentChunkerInit(target, overlap) ==
    /\ target_chunk_size' = target
    /\ overlap_size' = overlap
    /\ chunks' = << >>
    /\ split_outcome' = "not_called"
    /\ chunk_sentences' = << >>
    /\ UNCHANGED document_text
    /\ UNCHANGED <<retriever_vars, server_vars>>

\* The constructor checks neither argument: any two integers make a chunker,
\* zero and negative ones included.
NewChunker ==
    \/ DocumentChunkerInit(DEFAULT_TARGET_CHUNK_SIZE, DEFAULT_OVERLAP_SIZE)
    \/ \E t \in (0 - MaxTarget)..MaxTarget, o \in (0 - MaxOverlap)..MaxOverlap :
           DocumentChunkerInit(t, o)

SplitIntoChunks ==
    LET r == split_into_chunks(document_text, target_chunk_size, overlap_size)
    IN  /\ chunks' = r.chunks
        /\ split_outcome' = r.outcome
        /\ chunk_sentences' = << >>
        /\ UNCHANGED <<target_chunk_size, overlap_size, document_text>>
        /\ UNCHANGED <<retriever_vars, server_vars>>

\* A sentence terminator: any of ".", "!" and "?", which the pattern [.!?]+
\* treats alike.
PERIOD == 0 - 1

\* re.split(r'[.!?]+', text): the pieces of text between the runs of
\* terminators, empty pieces included; one piece more than there are runs.
ReSplit(text) ==
    LET n == Len(text)
        starts == {i \in 1..n : text[i] = PERIOD /\ (i = 1 \/ text[i - 1] # PERIOD)}
        ends == {i \in 1..n : text[i] = PERIOD /\ (i = n \/ text[i + 1] # PERIOD)}
        runs == Cardinality(starts)
        start(j) == CHOOSE i \in starts : Cardinality({h \in starts : h < i}) = j - 1
        end(j) == CHOOSE i \in ends : Cardinality({h \in ends : h < i}) = j - 1
    IN  [j \in 1..(runs + 1) |->
            SubSeq(text, IF j = 1 THEN 1 ELSE end(j - 1) + 1,
                         IF j = runs + 1 THEN n ELSE start(j) - 1)]

\* line 85: the pieces stripped, the empty ones left out.
Sentences(text) ==
    LET pieces == ReSplit(text)
        stripped == [j \in DOMAIN pieces |-> PyStrip(pieces[j])]
    IN  SelectSeq(stripped, LAMBDA sentence : sentence # << >>)

\* sum(len(s.split()) for s in sentence_list)
RECURSIVE WordCountUpTo(_, _)
WordCountUpTo(sentence_list, n) ==
    IF n = 0 THEN 0
    ELSE Len(PySplit(sentence_list[n])) + WordCountUpTo(sentence_list, n - 1)
WordCount(sentence_list) == WordCountUpTo(sentence_list, Len(sentence_list))

\* line 107
OverlapSentenceCount(overlap) == Max(1, overlap \div 20)

\* line 108: current_chunk_sentences[-overlap_sentence_count:]
OverlapSentences(current, overlap) ==
    SubSeq(current, Max(1, Len(current) - OverlapSentenceCount(overlap) + 1), Len(current))

\* The locals of split_by_sentences before the loop, lines 90-92; sentence_lists
\* keeps the list each chunk was joined from.
SentenceLoopStart ==
    [chunks |-> << >>, sentence_lists |-> << >>,
     current_chunk_sentences |-> << >>, current_word_count |-> 0]

\* The body of the for loop, lines 95-115.
SentenceStep(st, sentence, target, overlap) ==
    LET sentence_word_count == Len(PySplit(sentence))
    IN  IF st.current_word_count + sentence_word_count > target
           /\ st.current_chunk_sentences # << >>
        THEN LET next_sentences ==
                     OverlapSentences(st.current_chunk_sentences, overlap) \o <<sentence>>
             IN  [chunks |-> Append(st.chunks, PyJoin(st.current_chunk_sentences)),
                  sentence_lists |-> Append(st.sentence_lists, st.current_chunk_sentences),
                  current_chunk_sentences |-> next_sentences,
                  current_word_count |-> WordCount(next_sentences)]
        ELSE [st EXCEPT !.current_chunk_sentences = Append(@, sentence),
                        !.current_word_count = @ + sentence_word_count]

\* The for loop over the first n sentences.
RECURSIVE SentenceLoop(_, _, _, _)
SentenceLoop(sentences, n, target, overlap) ==
    IF n = 0 THEN SentenceLoopStart
    ELSE SentenceStep(SentenceLoop(sentences, n - 1, target, overlap),
                      sentences[n], target, overlap)

\* A split_by_sentences that forgets the chunk still being accumulated when the
\* loop ends.
SentenceFinalForgotten(st) == st

\* lines 118-120: the chunk still being accumulated is emitted.
SentenceFinal(st) ==
    IF st.current_chunk_sentences # << >>
    THEN [st EXCEPT !.chunks = Append(@, PyJoin(st.current_chunk_sentences)),
                    !.sentence_lists = Append(@, st.current_chunk_sentences)]
    ELSE st

\* split_by_sentences: the chunks it returns, and the sentences of each.
split_by_sentences(text, target, overlap) ==
    LET sentences == Sentences(text)
    IN  IF sentences = << >> THEN SentenceLoopStart
        ELSE SentenceFinal(SentenceLoop(sentences, Len(sentences), target, overlap))

\* The documents handed to split_by_sentences: every short text of terminators,
\* whitespace and one letter (the splitter counts words and never reads them).
SentenceTexts == UNION {[1..n -> {PERIOD, SPACE, 1}] : n \in 0..MaxTextLen}

\* Chunkers for sentence splitting: the default one, and small targets of
\* either sign with an overlap of ..., -20, 0, 20, 40, ... words, that is of
\* ..., 1, 1, 1, 2, ... sentences.
NewSentenceChunker ==
    \/ DocumentChunkerInit(DEFAULT_TARGET_CHUNK_SIZE, DEFAULT_OVERLAP_SIZE)
    \/ \E t \in (0 - MaxTarget)..MaxTarget, j \in (0 - MaxOverlap)..MaxOverlap :
           DocumentChunkerInit(t, 20 * j)

SplitBySentences ==
    LET r == split_by_sentences(document_text, target_chunk_size, overlap_size)
    IN  /\ chunks' = r.chunks
        /\ split_outcome' = "returned"
        /\ chunk_sentences' = r.sentence_lists
        /\ UNCHANGED <<target_chunk_size, overlap_size, document_text>>
        /\ UNCHANGED <<retriever_vars, server_vars>>

-----------------------------------------------------------------------------
(* chunking.py: claims *)

\* The windows the specification describes: window i is
\* words[i*step : i*step + T] for every i with i*step < n (here 1-based), read as
\* a slice: the end is clipped to the text, and a negative end counts from the
\* back of it.  The windows without words are left out.
CeilDiv(a, b) == (a + b - 1) \div b
SpecWindow(words, i, target, overlap) ==
    LET first == (i - 1) * (target - overlap)
        last == first + target
        stop == IF last < 0 THEN Len(words) + last ELSE Min(last, Len(words))
    IN  IF stop > first THEN SubSeq(words, first + 1, stop) ELSE << >>
SpecWindows(words, target, overlap) ==
    SelectSeq([i \in 1..CeilDiv(Len(words), target - overlap)
                  |-> SpecWindow(words, i, target, overlap)],
              LAMBDA w : w # << >>)

\* c is ws joined with single spaces: its words are ws, and it has no leading,
\* trailing or doubled whitespace.
SingleSpaced(c, ws) ==
    /\ PySplit(c) = ws
    /\ c # << >> => c[1] # SPACE /\ c[Len(c)] # SPACE
    /\ \A i \in 1..(Len(c) - 1) : ~(c[i] = SPACE /\ c[i + 1] = SPACE)

\* C9: a chunker whose overlap_size >= target_chunk_size is rejected when it is
\* constructed, so no constructed chunker ever holds such a configuration.
C9_DegenerateConfigRejected == overlap_size < target_chunk_size

\* C10: for overlap < target, split_into_chunks returns exactly the non-empty
\* windows words[i*step : i*step + T], i*step < n, each joined with single spaces
\* (with 1 <= T these are CeilDiv(n, step) windows, none of them empty); text
\* without words gives the empty list; the 600-word example under T = 500,
\* O = 50 gives the two chunks words[0:500] and words[450:600].
C10_WindowsExact ==
    LET words == PySplit(document_text)
        n == Len(words)
        T == target_chunk_size
        O == overlap_size
    IN  /\ (split_outcome # "not_called" /\ n = 0) =>
               (split_outcome = "returned" /\ chunks = << >>)
        /\ (split_outcome # "not_called" /\ O < T) =>
               /\ split_outcome = "returned"
               /\ Len(chunks) = Len(SpecWindows(words, T, O))
               /\ T >= 1 => Len(chunks) = CeilDiv(n, T - O)
               /\ \A i \in 1..Len(chunks) :
                      SingleSpaced(chunks[i], SpecWindows(words, T, O)[i])
        /\ (split_outcome # "not_called" /\ document_text = ExampleText
                /\ T = 500 /\ O = 50) =>
               /\ Len(chunks) = 2
               /\ PySplit(chunks[1]) = [i \in 1..500 |-> <<i>>]
               /\ PySplit(chunks[2]) = [i \in 1..150 |-> <<450 + i>>]

\* C10 witness: the 600-word example has been split by the default chunker into
\* two chunks.
C10_Witness ==
    /\ split_outcome = "returned"
    /\ document_text = ExampleText
    /\ target_chunk_size = 500 /\ overlap_size = 50
    /\ Len(chunks) = 2

\* The concatenation of the sequences ss[lo..hi].
RECURSIVE FlattenRange(_, _, _)
FlattenRange(ss, lo, hi) ==
    IF lo > hi THEN << >>
    ELSE IF lo = hi THEN ss[lo]
    ELSE LET mid == (lo + hi) \div 2
         IN  FlattenRange(ss, lo, mid) \o FlattenRange(ss, mid + 1, hi)

\* The number of leading words chunk i repeats from the chunk before it: the
\* overlap, or all of chunk i when it is shorter than the overlap; none under a
\* negative overlap.
SharedWords(cs, i, overlap) == Max(0, Min(overlap, Len(PySplit(cs[i]))))

\* The words of the chunks cs, each chunk after the first without the words it
\* repeats from the chunk before it.
WithoutOverlap(cs, overlap) ==
    FlattenRange([i \in DOMAIN cs |->
                     LET cw == PySplit(cs[i])
                     IN  IF i = 1 THEN cw
                         ELSE SubSeq(cw, SharedWords(cs, i, overlap) + 1, Len(cw))],
                 1, Len(cs))

\* C11: for a text with at least one word and any O < T, the chunks of
\* split_into_chunks without their repeated overlap words are the words of the
\* text in order, and the last min(O, length of the later chunk) words of every
\* chunk are the first words of the chunk after it.
C11_OverlapReconstructs ==
    LET words == PySplit(document_text)
        T == target_chunk_size
        O == overlap_size
    IN  (split_outcome # "not_called" /\ words # << >> /\ O < T) =>
            /\ split_outcome = "returned"
            /\ chunks # << >>
            /\ WithoutOverlap(chunks, O) = words
            /\ \A i \in 2..Len(chunks) :
                   LET before == PySplit(chunks[i - 1])
                       later == PySplit(chunks[i])
                       m == SharedWords(chunks, i, O)
                   IN  /\ m <= Len(before)
                       /\ SubSeq(before, Len(before) - m + 1, Len(before))
                              = SubSeq(later, 1, m)

\* The number of leading sentences chunk i carries over from the chunk before
\* it: the last max(1, overlap_size // 20) sentences of that chunk, or all of it.
CarriedSentences(lists, i, overlap) ==
    Min(OverlapSentenceCount(overlap), Len(lists[i - 1]))

\* C12: split_by_sentences emits no empty chunk, and the sentences of its
\* chunks in order, each chunk after the first without the sentences carried
\* over from the chunk before it, are the non-empty sentences of the text in
\* order.
C12_SentencesReconstruct ==
    LET lists == chunk_sentences
        O == overlap_size
    IN  split_outcome = "returned" =>
            /\ Len(lists) = Len(chunks)
            /\ \A i \in DOMAIN chunks :
                   /\ PyStrip(chunks[i]) # << >>
                   /\ lists[i] # << >>
                   /\ chunks[i] = PyJoin(lists[i])
            /\ \A i \in 2..Len(lists) :
                   LET m == CarriedSentences(lists, i, O)
                   IN  /\ m < Len(lists[i])
                       /\ SubSeq(lists[i], 1, m)
                              = SubSeq(lists[i - 1], Len(lists[i - 1]) - m + 1,
                                       Len(lists[i - 1]))
            /\ FlattenRange([i \in DOMAIN lists |->
                                IF i = 1 THEN lists[i]
                                ELSE SubSeq(lists[i], CarriedSentences(lists, i, O) + 1,
                                            Len(lists[i]))],
                            1, Len(lists))
                   = Sentences(document_text)

\* C12 witness: three sentences have been split with a two-sentence overlap
\* into two chunks, the second carrying both sentences of the first.
C12_Witness ==
    /\ split_outcome = "returned"
    /\ Len(Sentences(document_text)) = 3
    /\ OverlapSentenceCount(overlap_size) = 2
    /\ Len(chunks) = 2
    /\ Len(chunk_sentences[1]) = 2
    /\ Len(chunk_sentences[2]) = 3

\* C18: every chunk split_by_sentences emits that holds two or more sentences
\* has at most target_chunk_size words.
C18_MultiSentenceChunkBounded ==
    split_outcome = "returned" =>
        \A i \in DOMAIN chunks :
            Len(chunk_sentences[i]) >= 2 => Len(PySplit(chunks[i])) <= target_chunk_size

-----------------------------------------------------------------------------
(* embeddings.py: the embedding model and the FAISS index *)

MaxBatch == 2        \* chunks in one build_initial_index / add_document_chunks call
MaxStored == 2       \* cap on the length of the index and of stored_chunks
MaxMetadata == 3     \* cap on the length of chunk_metadata
MaxK == 2            \* largest num_results

\* The dimensionalities an embedding model may have.
Dims == {2, 3}

\* The chunk texts and questions given to the retriever: two single-word texts,
\* which the embedding model below maps to opposite directions.
Texts == {<<1>>, <<2>>}
\* The batches given to build_initial_index and add_document_chunks: up to
\* MaxBatch texts, alternating from either text.
NthText(c, i) == <<((c + i) % 2) + 1>>
Batches == {[i \in 1..n |-> NthText(c, i)] : c \in 1..2, n \in 0..MaxBatch}

\* SentenceTransformer.encode for one text, for a model of dimensionality d: a
\* deterministic vector that is not unit length.  The text's first character
\* picks the axis, the sign and the magnitude: "1" and "2" lie on the first axis
\* in opposite directions, "3" and "4" on the second, and so on.
EncodeOne(text, d) ==
    LET key == IF text = << >> THEN 1 ELSE text[1]
        axis == (((key - 1) \div 2) % d) + 1
        sign == IF key % 2 = 0 THEN 0 - 1 ELSE 1
    IN  [i \in 1..d |-> IF i = axis THEN sign * (key + 1) ELSE 0]

\* self.embedding_model.encode(text_chunks)
CreateEmbeddings(text_chunks, d) ==
    [i \in DOMAIN text_chunks |-> EncodeOne(text_chunks[i], d)]

RECURSIVE DotUpTo(_, _, _)
DotUpTo(u, v, n) == IF n = 0 THEN 0 ELSE u[n] * v[n] + DotUpTo(u, v, n - 1)
\* The inner product IndexFlatIP scores with.
Dot(u, v) == DotUpTo(u, v, Len(u))

ISqrt(x) == CHOOSE r \in 0..x : r * r <= x /\ (r + 1) * (r + 1) > x

\* A normalize_L2 that leaves every row as it is.
NormalizeRowSkipped(v) == v

\* faiss.normalize_L2 on one row: divided by its L2 norm; a zero row is left alone.
NormalizeRow(v) ==
    LET norm == ISqrt(Dot(v, v))
    IN  IF norm = 0 THEN v ELSE [i \in DOMAIN v |-> v[i] \div norm]

\* faiss.normalize_L2(embeddings)
NormalizeL2(embeddings) == [i \in DOMAIN embeddings |-> NormalizeRow(embeddings[i])]

\* faiss.IndexFlatIP(embedding_dimension)
IndexFlatIP(d) == [is_none |-> FALSE, d |-> d, vectors |-> << >>]

\* IndexFlatIP.add: the Python wrapper asserts the batch's width before it appends.
IndexAddFails(index, d) == d # index.d
IndexAdd(index, embeddings) == [index EXCEPT !.vectors = @ \o embeddings]

\* The score and the label FAISS fills a result slot with when the index holds
\* fewer than k vectors: -FLT_MAX (far below any inner product) and -1.
FAISS_PAD_SCORE == -1000
FAISS_PAD_LABEL == -1

\* IndexFlatIP.search for one query: the k best inner products in descending
\* order, equal scores in insertion order, as (scores, 0-based labels); the slots
\* past the index's size are padded.
IndexSearch(index, q, k) ==
    LET n == Len(index.vectors)
        score(i) == Dot(index.vectors[i], q)
        Before(j, i) == score(j) > score(i) \/ (score(j) = score(i) /\ j < i)
        rank(i) == Cardinality({j \in 1..n : Before(j, i)}) + 1
        at(p) == CHOOSE i \in 1..n : rank(i) = p
    IN  [scores |-> [p \in 1..k |-> IF p <= n THEN score(at(p)) ELSE FAISS_PAD_SCORE],
         labels |-> [p \in 1..k |-> IF p <= n THEN at(p) - 1 ELSE FAISS_PAD_LABEL]]

-----------------------------------------------------------------------------
(* embeddings.py: DocumentRetriever *)

NoIndex == [is_none |-> TRUE, d |-> 0, vectors |-> << >>]

\* The retriever's three stores as one value.
Self == [vector_index |-> vector_index,
         stored_chunks |-> stored_chunks,
         chunk_metadata |-> chunk_metadata]

SystemMetadata(docs) == [i \in DOMAIN docs |-> [text |-> docs[i], source |-> "system"]]
FallbackMetadata(new_chunks) ==
    [i \in DOMAIN new_chunks |-> [text |-> new_chunks[i], source |-> "uploaded"]]

\* build_initial_index: the stores are replaced first (stored_chunks becomes the
\* caller's list itself, not a copy of it); embeddings.shape[1] raises
\* IndexError for an empty document list (encode returns an array of shape (0,)),
\* leaving the old index in place.
build_initial_index(self, initial_documents, d) ==
    LET s1 == [self EXCEPT !.stored_chunks = initial_documents,
                           !.chunk_metadata = SystemMetadata(initial_documents)]
        embeddings == CreateEmbeddings(initial_documents, d)
    IN  IF initial_documents = << >>
        THEN [self |-> s1, error |-> "IndexError"]
        ELSE [self |-> [s1 EXCEPT !.vector_index =
                                      IndexAdd(IndexFlatIP(d), NormalizeL2(embeddings))],
              error |-> "none"]

\* add_document_chunks, lines 84-88: the index is created on first use.
AddInitIndex(self, d) ==
    IF self.vector_index.is_none
    THEN [vector_index |-> IndexFlatIP(d), stored_chunks |-> << >>, chunk_metadata |-> << >>]
    ELSE self

\* line 91
AddToIndex(self, new_embeddings) ==
    [self EXCEPT !.vector_index = IndexAdd(@, new_embeddings)]

\* line 92
AddToChunks(self, new_chunks) ==
    [self EXCEPT !.stored_chunks = @ \o new_chunks]

\* lines 95-99: "if metadata" is false for None and for the empty list.
AddToMetadata(self, new_chunks, has_metadata, metadata) ==
    [self EXCEPT !.chunk_metadata =
        @ \o (IF has_metadata /\ metadata # << >> THEN metadata
              ELSE FallbackMetadata(new_chunks))]

\* What the name new_chunks denotes once line 92 has run.  The caller may pass
\* the very list object the retriever holds (the list it gave to
\* build_initial_index, or retriever.stored_chunks): extending stored_chunks
\* then extends new_chunks too, and line 99 reads the extended list.  self is
\* the retriever after line 92.
NewChunksAfterExtend(self, new_chunks, same_list) ==
    IF same_list THEN self.stored_chunks ELSE new_chunks

\* An add_document_chunks that extends the text store before the index accepts
\* the batch.
add_document_chunks_text_first(self, new_chunks, has_metadata, metadata, d, same_list) ==
    IF new_chunks = << >> THEN [self |-> self, error |-> "none"]
    ELSE LET new_embeddings == NormalizeL2(CreateEmbeddings(new_chunks, d))
             still_same == same_list /\ ~self.vector_index.is_none
             s1 == AddToChunks(AddInitIndex(self, d), new_chunks)
         IN  IF IndexAddFails(s1.vector_index, d)
             THEN [self |-> s1, error |-> "AssertionError"]
             ELSE [self |-> AddToMetadata(AddToIndex(s1, new_embeddings),
                                          NewChunksAfterExtend(s1, new_chunks, still_same),
                                          has_metadata, metadata),
                   error |-> "none"]

\* add_document_chunks as one call.  same_list says that new_chunks is the list
\* object self.stored_chunks (its value is then the value of that list); lines
\* 87-88 bind stored_chunks to a new list when there is no index yet, and the
\* two are no longer the same list after that.
add_document_chunks(self, new_chunks, has_metadata, metadata, d, same_list) ==
    IF new_chunks = << >> THEN [self |-> self, error |-> "none"]
    ELSE LET new_embeddings == NormalizeL2(CreateEmbeddings(new_chunks, d))
             still_same == same_list /\ ~self.vector_index.is_none
             s1 == AddInitIndex(self, d)
         IN  IF IndexAddFails(s1.vector_index, d)
             THEN [self |-> s1, error |-> "AssertionError"]
             ELSE LET s2 == AddToChunks(AddToIndex(s1, new_embeddings), new_chunks)
                  IN  [self |-> AddToMetadata(s2,
                                    NewChunksAfterExtend(s2, new_chunks, still_same),
                                    has_metadata, metadata),
                       error |-> "none"]

\* A guard that forgets the text store.
FindGuardIndexOnly(self) == self.vector_index.is_none

\* line 124: not self.vector_index or not self.stored_chunks
FindGuard(self) == self.vector_index.is_none \/ self.stored_chunks = << >>

\* list[idx] for a 0-based idx the caller has bounded above: a negative idx
\* counts from the back.  Yields the 1-based position.
PyPosition(list, idx) == IF idx < 0 THEN Len(list) + idx + 1 ELSE idx + 1

EmptyFound == [error |-> "none", chunks |-> << >>, scores |-> << >>, positions |-> << >>]

\* find_relevant_chunks: (retrieved_chunks, similarity_values), or the
\* AssertionError of IndexFlatIP.search on a query of another width.
\* positions are the places in stored_chunks the returned chunks were read from.
find_relevant_chunks(self, user_question, d, num_results) ==
    IF FindGuard(self) THEN EmptyFound
    ELSE LET question_embedding == NormalizeL2(CreateEmbeddings(<<user_question>>, d))
         IN  IF d # self.vector_index.d
             THEN [EmptyFound EXCEPT !.error = "AssertionError"]
             ELSE LET found == IndexSearch(self.vector_index, question_embedding[1],
                                           num_results)
                      kept == SelectSeq(found.labels,
                                        LAMBDA idx : idx < Len(self.stored_chunks))
                      positions == [j \in DOMAIN kept |->
                                        PyPosition(self.stored_chunks, kept[j])]
                  IN  IF \E j \in DOMAIN positions :
                             positions[j] \notin DOMAIN self.stored_chunks
                      THEN [EmptyFound EXCEPT !.error = "IndexError"]
                      ELSE
                      [error |-> "none",
                       chunks |-> [j \in DOMAIN positions |->
                                       self.stored_chunks[positions[j]]],
                       scores |-> found.scores,
                       positions |-> positions]

\* Metadata a caller supplies for a batch: m entries describing its chunks.
CallerMetadata(new_chunks, m) ==
    [i \in 1..m |-> [text |-> new_chunks[Min(i, Len(new_chunks))], source |-> "caller"]]

NoCall == [op |-> "init", texts |-> << >>, same_list |-> FALSE,
           has_metadata |-> FALSE, metadata |-> << >>,
           d |-> 0, k |-> 0]
NoResult == EmptyFound

Fits(self) ==
    /\ Len(self.vector_index.vectors) <= MaxStored
    /\ Len(self.stored_chunks) <= MaxStored
    /\ Len(self.chunk_metadata) <= MaxMetadata

Assign(self) ==
    /\ vector_index' = self.vector_index
    /\ stored_chunks' = self.stored_chunks
    /\ chunk_metadata' = self.chunk_metadata

BuildInitialIndex ==
    \E docs \in Batches, d \in Dims :
        LET r == build_initial_index(Self, docs, d)
        IN  /\ Fits(r.self)
            /\ Assign(r.self)
            /\ call' = [NoCall EXCEPT !.op = "build", !.texts = docs, !.d = d]
            /\ result' = [EmptyFound EXCEPT !.error = r.error]
            /\ UNCHANGED <<chunker_vars, server_vars>>

\* The caller passes a list of its own, or (same_list) the list the retriever
\* holds as stored_chunks, and no metadata, or a metadata list of m entries: as
\* many as there are chunks, one fewer or one more.  An empty batch returns at
\* once whatever comes with it.
AddDocumentChunks ==
    \E new_chunks \in Batches \cup {stored_chunks}, same_list \in BOOLEAN, d \in Dims,
       has_metadata \in BOOLEAN, m \in 0..MaxBatch :
        LET metadata == IF has_metadata /\ new_chunks # << >>
                        THEN CallerMetadata(new_chunks, m) ELSE << >>
            r == add_document_chunks(Self, new_chunks, has_metadata, metadata, d, same_list)
        IN  /\ same_list => new_chunks = stored_chunks
            /\ has_metadata \/ m = 0
            /\ new_chunks = << >> => m = 0
            /\ has_metadata /\ new_chunks # << >> =>
                   (Len(new_chunks) - 1 <= m /\ m <= Len(new_chunks) + 1)
            /\ Fits(r.self)
            /\ Assign(r.self)
            /\ call' = [NoCall EXCEPT !.op = "add", !.texts = new_chunks, !.d = d,
                                      !.same_list = same_list,
                                      !.has_metadata = has_metadata,
                                      !.metadata = metadata]
            /\ result' = [EmptyFound EXCEPT !.error = r.error]
            /\ UNCHANGED <<chunker_vars, server_vars>>

FindRelevantChunks ==
    \E user_question \in Texts, d \in Dims, num_results \in 1..MaxK :
        /\ call' = [NoCall EXCEPT !.op = "find", !.texts = <<user_question>>, !.d = d,
                                  !.k = num_results]
        /\ result' = find_relevant_chunks(Self, user_question, d, num_results)
        /\ UNCHANGED <<vector_index, stored_chunks, chunk_metadata>>
        /\ UNCHANGED <<chunker_vars, server_vars>>

\* The chunk texts of the round trip: "1" and "2", and "1 1", which differs from
\* "1" only where the embedding model does not look (as two texts that differ in
\* letter case do for an uncased model) and so has the embedding of "1".
RoundTripTexts == {<<1>>, <<2>>, <<1, SPACE, 1>>}
RoundTripBatches == UNION {[1..n -> RoundTripTexts] : n \in 1..MaxBatch}

\* add_document_chunks with N >= 1 chunks and no metadata.
RoundTripAdd ==
    \E new_chunks \in RoundTripBatches \cup {stored_chunks}, same_list \in BOOLEAN,
       d \in Dims :
        LET r == add_document_chunks(Self, new_chunks, FALSE, << >>, d, same_list)
        IN  /\ same_list => new_chunks = stored_chunks
            /\ Fits(r.self)
            /\ Assign(r.self)
            /\ call' = [NoCall EXCEPT !.op = "add", !.texts = new_chunks, !.d = d,
                                      !.same_list = same_list]
            /\ result' = [EmptyFound EXCEPT !.error = r.error]
            /\ UNCHANGED <<chunker_vars, server_vars>>

\* find_relevant_chunks with the text of one of the stored chunks as the
\* question, embedded by the model that embedded the chunks.
RoundTripFind ==
    \E i \in DOMAIN stored_chunks, num_results \in 1..MaxK :
        /\ ~vector_index.is_none
        /\ call' = [NoCall EXCEPT !.op = "find", !.texts = <<stored_chunks[i]>>,
                                  !.d = vector_index.d, !.k = num_results]
        /\ result' = find_relevant_chunks(Self, stored_chunks[i], vector_index.d,
                                          num_results)
        /\ UNCHANGED <<vector_index, stored_chunks, chunk_metadata>>
        /\ UNCHANGED <<chunker_vars, server_vars>>

-----------------------------------------------------------------------------
(* embeddings.py: claims *)

IndexSize(self) == Len(self.vector_index.vectors)

\* The three stores describe the same chunks, position by position.
Aligned(self) ==
    /\ IndexSize(self) = Len(self.stored_chunks)
    /\ Len(self.chunk_metadata) = Len(self.stored_chunks)
    /\ \A i \in DOMAIN self.stored_chunks :
           /\ self.vector_index.vectors[i] =
                  NormalizeRow(EncodeOne(self.stored_chunks[i], self.vector_index.d))
           /\ self.chunk_metadata[i].text = self.stored_chunks[i]

\* The cosine similarity of a chunk and a question under a model of width d.
Similarity(chunk, question, d) ==
    Dot(NormalizeRow(EncodeOne(chunk, d)), NormalizeRow(EncodeOne(question, d)))

Found == call.op = "find" /\ result.error = "none"

\* C1: after any sequence of build_initial_index and add_document_chunks calls,
\* with metadata supplied or omitted, the index, stored_chunks and chunk_metadata
\* have the same length and agree position by position.
C1_StoresAligned == Aligned(Self)

\* C3: an add_document_chunks call whose batch has another dimensionality than
\* the existing index raises, and leaves vector_index, stored_chunks and
\* chunk_metadata as they were.
C3_DimMismatchFailsUnchanged ==
    [][(/\ call'.op = "add"
        /\ call'.texts # << >>
        /\ ~vector_index.is_none
        /\ call'.d # vector_index.d)
       => /\ result'.error = "AssertionError"
          /\ UNCHANGED <<vector_index, stored_chunks, chunk_metadata>>]_vars

\* C3 witness: an add onto a non-empty index of another width has been refused.
C3_Witness ==
    /\ call.op = "add"
    /\ result.error = "AssertionError"
    /\ ~vector_index.is_none /\ call.d # vector_index.d
    /\ stored_chunks # << >>

\* C4: find_relevant_chunks on a retriever whose index was never initialized, or
\* that holds no chunks, returns ([], []) and raises nothing, for every question
\* and every k.
C4_EmptyIndexEmptyResult ==
    (call.op = "find" /\ (vector_index.is_none \/ stored_chunks = << >>))
        => (result.error = "none" /\ result.chunks = << >> /\ result.scores = << >>)

\* C4 witness: a search with k > 1 has run on a retriever that was never
\* initialized.
C4_Witness ==
    /\ call.op = "find" /\ call.k > 1
    /\ vector_index.is_none
    /\ result = EmptyFound

\* C5: on an index of N records, find_relevant_chunks returns at most min(k, N)
\* chunks, each read from a distinct position of the store.
C5_AtMostKDistinct ==
    (Found /\ Aligned(Self)) =>
        /\ Len(result.chunks) <= Min(call.k, IndexSize(Self))
        /\ \A i, j \in DOMAIN result.positions :
               i # j => result.positions[i] # result.positions[j]

\* C6: the returned chunks and scores have the same length, and the j-th score
\* is the similarity of the j-th returned chunk to the question.
C6_ChunksScoresParallel ==
    Found =>
        /\ Len(result.chunks) = Len(result.scores)
        /\ \A j \in DOMAIN result.chunks :
               j \in DOMAIN result.scores
               /\ result.scores[j] = Similarity(result.chunks[j], call.texts[1], call.d)

\* C7: every returned score lies in [-1, 1], the scores are in descending order,
\* and equal scores come in insertion order, for every N and k.
C7_ScoresBoundedDescending ==
    (Found /\ Aligned(Self)) =>
        /\ \A j \in DOMAIN result.scores : 0 - 1 <= result.scores[j] /\ result.scores[j] <= 1
        /\ \A j \in 1..(Len(result.scores) - 1) : result.scores[j] >= result.scores[j + 1]
        /\ \A j \in 1..(Len(result.positions) - 1) :
               (j + 1 \in DOMAIN result.scores /\ result.scores[j] = result.scores[j + 1])
                   => result.positions[j] < result.positions[j + 1]

\* C8: add_document_chunks called with a metadata list whose length differs from
\* the chunk list's is rejected with an error.
C8_MetadataMismatchRejected ==
    (call.op = "add" /\ call.has_metadata /\ Len(call.metadata) # Len(call.texts))
        => result.error # "none"

\* The stored chunks whose embedding is the embedding of the question.
EmbeddedAlike(question, d) ==
    {i \in DOMAIN stored_chunks :
        NormalizeRow(EncodeOne(stored_chunks[i], d)) = NormalizeRow(EncodeOne(question, d))}

\* C16 as stated: after chunks were added to an empty retriever, a search with
\* the text of any of them returns that chunk at rank 1 with similarity 1, the
\* largest of the returned scores, for every k >= 1.
C16_RoundTripRankOne ==
    call.op = "find" =>
        /\ result.error = "none"
        /\ result.chunks # << >>
        /\ result.chunks[1] = call.texts[1]
        /\ result.scores[1] = 1
        /\ \A j \in DOMAIN result.scores : result.scores[j] <= result.scores[1]

\* C16 as amended: the search returns at rank 1, with similarity 1, the largest
\* of the returned scores, a stored chunk whose embedding is the embedding of
\* that chunk; it is that chunk itself when no chunk with another text has the
\* same embedding.
C16_RoundTripRankOneAmongAlike ==
    call.op = "find" =>
        /\ result.error = "none"
        /\ result.chunks # << >>
        /\ result.positions[1] \in EmbeddedAlike(call.texts[1], call.d)
        /\ result.chunks[1] = stored_chunks[result.positions[1]]
        /\ result.scores[1] = 1
        /\ \A j \in DOMAIN result.scores : result.scores[j] <= result.scores[1]
        /\ (\A i \in EmbeddedAlike(call.texts[1], call.d) :
                stored_chunks[i] = call.texts[1])
               => result.chunks[1] = call.texts[1]

\* C16 witness: two chunks with different embeddings were added to an empty
\* retriever and a search with the second, for as many results as there are
\* chunks, has returned it at rank 1 with similarity 1.
C16_Witness ==
    /\ call.op = "find" /\ call.k = Len(stored_chunks)
    /\ Len(stored_chunks) = 2
    /\ call.texts[1] = stored_chunks[2]
    /\ EmbeddedAlike(call.texts[1], call.d) = {2}
    /\ result.chunks[1] = stored_chunks[2]
    /\ result.scores[1] = 1

-----------------------------------------------------------------------------
(* routes.py, ingestion.py: the /query and /ingest handlers *)

MaxRequests == 2     \* requests the application receives

\* The width of the one embedding model the application loads.
ServerDim == CHOOSE d \in Dims : \A e \in Dims : d <= e

\* embeddings.py, lines 154-160: the five example documents.
example_knowledge_base == << <<1>>, <<2>>, <<3>>, <<4>>, <<5>> >>

\* The text extracted from an uploaded PDF: nothing but whitespace, one word, or
\* two words the extractor separated by a run of whitespace.
UploadTexts == { <<SPACE>>, <<1>>, <<2, SPACE, SPACE, 2>> }

\* The content of an upload whose filename does not end in ".pdf"; it is never read.
NotAPdf == << >>

\* routes.py line 39: num_results=3
QUERY_NUM_RESULTS == 3

\* The coroutine labels at which a handler awaits and the event loop may run
\* another request, were add_document_chunks to await after the index is extended.
YieldPointsInsideAdd == {"u_read", "q_generate", "u_add_chunks"}

\* The coroutine labels at which a handler awaits: upload_document at
\* "await file.read()", ask_question at "await llm_client.generate_answer(...)".
\* process_uploaded_pdf and add_document_chunks are plain calls.
YieldPoints == {"u_read", "q_generate"}

\* A fraction num/den with den > 0 stands for a float; den = 0 stands for None.
NoneSimilarity == [num |-> 0, den |-> 0]

\* The body of a /metrics response before its keys are filled in.
NoMetrics ==
    [message |-> "none", total_queries |-> 0,
     avg_similarity |-> NoneSimilarity, min_similarity |-> NoneSimilarity,
     max_similarity |-> NoneSimilarity, similarity_std |-> 0, performance_hint |-> "none"]

NewRequest(kind, text, is_pdf) ==
    [kind |-> kind, text |-> text, is_pdf |-> is_pdf,
     pc |-> IF kind = "query" THEN "q_find"
            ELSE IF kind = "ingest" THEN "u_validate" ELSE "m_metrics",
     text_chunks |-> << >>, found |-> EmptyFound, status |-> 0, metrics |-> NoMetrics]

\* The event loop runs request r: its coroutine holds the loop, or the loop is
\* between tasks and r has not finished.
CanRun(r) ==
    /\ r \in DOMAIN requests
    /\ requests[r].pc # "done"
    /\ running = r \/ running = 0

\* Request r moves to label pc with its locals updated; the loop is released at
\* an await and at the end of the handler.
Goto(r, pc, locals) ==
    /\ requests' = [requests EXCEPT ![r] = [locals EXCEPT !.pc = pc]]
    /\ running' = IF pc \in YieldPoints \/ pc = "done" THEN 0 ELSE r

Respond(r, status) == Goto(r, "done", [requests[r] EXCEPT !.status = status])

RECURSIVE SumUpTo(_, _)
SumUpTo(xs, n) == IF n = 0 THEN 0 ELSE xs[n] + SumUpTo(xs, n - 1)
\* An average that is the best score alone.
MeanBestScore(similarity_scores) ==
    IF similarity_scores = << >> THEN [num |-> 0, den |-> 1]
    ELSE [num |-> similarity_scores[1], den |-> 1]
\* np.mean(similarity_scores) if similarity_scores else 0.0, as a fraction
Mean(similarity_scores) ==
    IF similarity_scores = << >> THEN [num |-> 0, den |-> 1]
    ELSE [num |-> SumUpTo(similarity_scores, Len(similarity_scores)),
          den |-> Len(similarity_scores)]

\* A GET /metrics request arrives.
ArriveMetrics ==
    /\ running = 0
    /\ Len(requests) < MaxRequests
    /\ requests' = Append(requests, NewRequest("metrics", << >>, FALSE))
    /\ UNCHANGED <<running, query_logs, document_logs>>
    /\ UNCHANGED <<chunker_vars, retriever_vars>>

\* A request arrives: the loop, between tasks, creates its handler's task.
Arrive ==
    \/ /\ running = 0
       /\ Len(requests) < MaxRequests
       /\ \/ \E question \in Texts :
                 requests' = Append(requests, NewRequest("query", question, FALSE))
          \/ \E text \in UploadTexts :
                 requests' = Append(requests, NewRequest("ingest", text, TRUE))
          \/ requests' = Append(requests, NewRequest("ingest", NotAPdf, FALSE))
       /\ UNCHANGED <<running, query_logs, document_logs>>
       /\ UNCHANGED <<chunker_vars, retriever_vars>>
    \/ ArriveMetrics

\* ask_question, lines 38-44: find_relevant_chunks, then await generate_answer.
QueryFind(r) ==
    /\ CanRun(r) /\ requests[r].pc = "q_find"
    /\ LET found == find_relevant_chunks(Self, requests[r].text, ServerDim,
                                         QUERY_NUM_RESULTS)
       IN  IF found.error # "none" THEN Respond(r, 500)
           ELSE Goto(r, "q_generate", [requests[r] EXCEPT !.found = found])
    /\ UNCHANGED <<query_logs, document_logs>>
    /\ UNCHANGED <<chunker_vars, retriever_vars>>

\* A DocumentRetriever as __init__ leaves it: no index, no chunk.
NewDocumentRetriever ==
    [vector_index |-> NoIndex, stored_chunks |-> << >>, chunk_metadata |-> << >>]

\* ask_question, lines 46-65: generate_answer has returned (it raises nothing);
\* the QueryLog row is committed, or the commit fails.
QueryLogAndRespond(r) ==
    /\ CanRun(r) /\ requests[r].pc = "q_generate"
    /\ \E commit_ok \in BOOLEAN :
           IF commit_ok
           THEN /\ query_logs' = Append(query_logs,
                      [query_text |-> requests[r].text,
                       cosine_similarity |-> Mean(requests[r].found.scores)])
                /\ Respond(r, 200)
           ELSE /\ UNCHANGED query_logs
                /\ Respond(r, 500)
    /\ UNCHANGED document_logs
    /\ UNCHANGED <<chunker_vars, retriever_vars>>

\* upload_document, lines 139-147: the filename check, then await file.read().
UploadValidate(r) ==
    /\ CanRun(r) /\ requests[r].pc = "u_validate"
    /\ IF ~requests[r].is_pdf THEN Respond(r, 400) ELSE Goto(r, "u_read", requests[r])
    /\ UNCHANGED <<query_logs, document_logs>>
    /\ UNCHANGED <<chunker_vars, retriever_vars>>

\* process_uploaded_pdf, lines 95-125, and add_document_chunks, lines 76-88: the
\* text is extracted and split, the chunks are embedded (the model may raise).
UploadProcess(r) ==
    /\ CanRun(r) /\ requests[r].pc = "u_read"
    /\ LET document == requests[r].text
           split == split_into_chunks(document, target_chunk_size, overlap_size)
       IN  IF PyStrip(document) = << >> THEN Respond(r, 500)
           ELSE IF split.outcome # "returned" \/ split.chunks = << >> THEN Respond(r, 500)
           ELSE \E embed_ok \in BOOLEAN :
                    IF embed_ok
                    THEN Goto(r, "u_index_add",
                              [requests[r] EXCEPT !.text_chunks = split.chunks])
                    ELSE Respond(r, 500)
    /\ UNCHANGED <<query_logs, document_logs>>
    /\ UNCHANGED <<chunker_vars, retriever_vars>>

\* The metadata process_uploaded_pdf builds, lines 117-127; the request number
\* stands for the uuid4.
PdfMetadata(r, text_chunks) ==
    [i \in DOMAIN text_chunks |->
        [chunk_id |-> <<r, i - 1>>, doc_id |-> r, filename |-> "upload.pdf",
         text |-> text_chunks[i], chunk_index |-> i - 1]]

\* add_document_chunks, lines 84-91
UploadIndexAdd(r) ==
    /\ CanRun(r) /\ requests[r].pc = "u_index_add"
    /\ LET s1 == AddInitIndex(Self, ServerDim)
           new_embeddings == NormalizeL2(CreateEmbeddings(requests[r].text_chunks, ServerDim))
       IN  IF IndexAddFails(s1.vector_index, ServerDim)
           THEN Assign(s1) /\ Respond(r, 500)
           ELSE Assign(AddToIndex(s1, new_embeddings)) /\ Goto(r, "u_add_chunks", requests[r])
    /\ UNCHANGED <<query_logs, document_logs, call, result>>
    /\ UNCHANGED chunker_vars

\* add_document_chunks, line 92
UploadAddChunks(r) ==
    /\ CanRun(r) /\ requests[r].pc = "u_add_chunks"
    /\ Assign(AddToChunks(Self, requests[r].text_chunks))
    /\ Goto(r, "u_add_metadata", requests[r])
    /\ UNCHANGED <<query_logs, document_logs, call, result>>
    /\ UNCHANGED chunker_vars

\* add_document_chunks, lines 95-99
UploadAddMetadata(r) ==
    /\ CanRun(r) /\ requests[r].pc = "u_add_metadata"
    /\ Assign(AddToMetadata(Self, requests[r].text_chunks, TRUE,
                            PdfMetadata(r, requests[r].text_chunks)))
    /\ Goto(r, "u_log", requests[r])
    /\ UNCHANGED <<query_logs, document_logs, call, result>>
    /\ UNCHANGED chunker_vars

\* upload_document, lines 153-179: the DocumentLog row is committed, or the
\* commit fails.
UploadLogAndRespond(r) ==
    /\ CanRun(r) /\ requests[r].pc = "u_log"
    /\ \E commit_ok \in BOOLEAN :
           IF commit_ok
           THEN /\ document_logs' = Append(document_logs,
                      [doc_id |-> r, filename |-> "upload.pdf",
                       num_chunks |-> Len(requests[r].text_chunks),
                       total_text_length |-> Len(requests[r].text)])
                /\ Respond(r, 200)
           ELSE /\ UNCHANGED document_logs
                /\ Respond(r, 500)
    /\ UNCHANGED query_logs
    /\ UNCHANGED <<chunker_vars, retriever_vars>>

RECURSIVE GCD(_, _)
GCD(a, b) == IF b = 0 THEN a ELSE GCD(b, a % b)
LCM(a, b) == (a * b) \div GCD(a, b)
Abs(a) == IF a < 0 THEN 0 - a ELSE a

\* The fraction f in lowest terms.
Reduce(f) ==
    LET g == GCD(Abs(f.num), f.den)
    IN  [num |-> f.num \div g, den |-> f.den \div g]

\* x < y for fractions.
FracLess(x, y) == x.num * y.den < y.num * x.den

\* A common denominator of the first n fractions of xs, and their numerators
\* over it.
RECURSIVE CommonDen(_, _)
CommonDen(xs, n) == IF n = 0 THEN 1 ELSE LCM(xs[n].den, CommonDen(xs, n - 1))
Numerators(xs) ==
    LET D == CommonDen(xs, Len(xs))
    IN  [i \in DOMAIN xs |-> xs[i].num * (D \div xs[i].den)]

\* np.mean over a non-empty list of floats.
NpMean(xs) ==
    LET a == Numerators(xs)
    IN  Reduce([num |-> SumUpTo(a, Len(a)), den |-> CommonDen(xs, Len(xs)) * Len(xs)])

\* np.min, np.max
NpMin(xs) == xs[CHOOSE i \in DOMAIN xs : \A j \in DOMAIN xs : ~FracLess(xs[j], xs[i])]
NpMax(xs) == xs[CHOOSE i \in DOMAIN xs : \A j \in DOMAIN xs : ~FracLess(xs[i], xs[j])]

\* The largest r in lo..hi with r * r <= x.
RECURSIVE FloorSqrtIn(_, _, _)
FloorSqrtIn(x, lo, hi) ==
    IF lo = hi THEN lo
    ELSE LET mid == (lo + hi + 1) \div 2
         IN  IF mid * mid <= x THEN FloorSqrtIn(x, mid, hi) ELSE FloorSqrtIn(x, lo, mid - 1)

\* np.std (ddof = 0): the square root of the mean of the squared deviations
\* from the mean, in thousandths, rounded down.
NpStd(xs) ==
    LET a == Numerators(xs)
        n == Len(xs)
        D == CommonDen(xs, n)
        S == SumUpTo(a, n)
        squares == [i \in DOMAIN a |-> (n * a[i] - S) * (n * a[i] - S)]
        variance == Reduce([num |-> SumUpTo(squares, n), den |-> n * n * n * D * D])
    IN  FloorSqrtIn((variance.num * 1000000) \div variance.den, 0, 1000)

\* A hint that calls a mean of exactly 0.5 good.
GoodPerformanceFromHalf(mean) == mean.num * 2 >= mean.den

\* line 118: np.mean(similarity_scores) > 0.5
GoodPerformance(mean) == mean.num * 2 > mean.den

\* lines 97-98: the response to an empty table.
NoQueriesLogged ==
    [NoMetrics EXCEPT !.message = "No queries logged yet"]

\* get_system_metrics, lines 95-121: the body of the response.
get_system_metrics(logs) ==
    IF logs = << >>
    THEN NoQueriesLogged
    ELSE LET all_scores == [i \in DOMAIN logs |-> logs[i].cosine_similarity]
             similarity_scores == SelectSeq(all_scores, LAMBDA x : x # NoneSimilarity)
         IN  IF similarity_scores = << >>
             THEN [NoMetrics EXCEPT !.message = "No similarity scores available yet"]
             ELSE [message |-> "none",
                   total_queries |-> Len(logs),
                   avg_similarity |-> NpMean(similarity_scores),
                   min_similarity |-> NpMin(similarity_scores),
                   max_similarity |-> NpMax(similarity_scores),
                   similarity_std |-> NpStd(similarity_scores),
                   performance_hint |->
                       IF GoodPerformance(NpMean(similarity_scores))
                       THEN "Good performance"
                       ELSE "Consider adding more relevant documents"]

\* get_system_metrics as a handler: it reads the table and responds, and awaits
\* nothing.
GetSystemMetrics(r) ==
    /\ CanRun(r) /\ requests[r].pc = "m_metrics"
    /\ Goto(r, "done", [requests[r] EXCEPT !.metrics = get_system_metrics(query_logs),
                                           !.status = 200])
    /\ UNCHANGED <<query_logs, document_logs>>
    /\ UNCHANGED <<chunker_vars, retriever_vars>>

MaxHistory == 4      \* rows of the query_logs table handed to get_system_metrics

\* The per-query mean similarities of the logged queries, in tenths.
SimilarityTenths == {3, 5, 6, 8, 9}

\* The QueryLog row ask_question writes for a query whose scores average v tenths.
LoggedQuery(v) == [query_text |-> <<1>>, cosine_similarity |-> [num |-> v, den |-> 10]]

\* The tables handed to get_system_metrics: up to MaxHistory such rows.
Histories == UNION {[1..n -> {LoggedQuery(v) : v \in SimilarityTenths}] : n \in 0..MaxHistory}

-----------------------------------------------------------------------------
(* routes.py: claims *)

\* Request r is at the point where it reads the shared stores: a query about to
\* run find_relevant_chunks, or an ingestion about to extend the index.
Observes(r) ==
    /\ CanRun(r)
    /\ requests[r].pc \in {"q_find", "u_index_add"}

\* C2: under any interleaving of ingest and query requests, no
\* find_relevant_chunks call and no other add_document_chunks call sees the
\* index extended without the matching stored_chunks and chunk_metadata entries.
C2_MutationAtomic ==
    \A r \in DOMAIN requests : Observes(r) => Aligned(Self)

\* C2 witness: while a query that has searched the index is suspended at its
\* await, an upload has run to completion and extended the three stores.
C2_Witness ==
    \E q, u \in DOMAIN requests :
        /\ requests[q].kind = "query" /\ requests[q].pc = "q_generate"
        /\ Len(requests[q].found.chunks) = QUERY_NUM_RESULTS
        /\ requests[u].kind = "ingest" /\ requests[u].status = 200
        /\ Len(stored_chunks) > Len(example_knowledge_base)

\* Every query answered so far retrieved no scores: it searched a retriever
\* that held no chunk.  The retriever the handlers search is seeded at import
\* and never loses a chunk, so every answered query has QUERY_NUM_RESULTS
\* scores and this holds only while no query has been answered.
AllQueriesScoreless ==
    \A q \in DOMAIN requests :
        (requests[q].kind = "query" /\ requests[q].status = 200)
            => requests[q].found.scores = << >>

\* Request r runs get_system_metrics in this step.
MetricsStep(r) ==
    /\ r \in DOMAIN requests
    /\ requests[r].pc = "m_metrics"
    /\ requests'[r].pc = "done"

\* C13: get_system_metrics reports insufficient data, and no statistics, both
\* when no query has been logged and when every logged query was answered
\* before any chunk existed and so retrieved no scores.
C13_InsufficientDataReported ==
    [][\A r \in 1..MaxRequests :
          (MetricsStep(r) /\ (query_logs = << >> \/ AllQueriesScoreless))
              => /\ requests'[r].metrics.message # "none"
                 /\ requests'[r].metrics.avg_similarity = NoneSimilarity
                 /\ requests'[r].metrics.performance_hint = "none"]_vars

\* The non-null similarities of the table, and their numerators over a common
\* denominator.
LoggedScores ==
    SelectSeq([i \in DOMAIN query_logs |-> query_logs[i].cosine_similarity],
              LAMBDA x : x # NoneSimilarity)

\* x = y for fractions.
FracEq(x, y) == x.num * y.den = y.num * x.den

\* The response body m holds the statistics of the similarities xs: their
\* count, mean, minimum, maximum, population standard deviation (to a
\* thousandth) and the classification, good exactly when the mean exceeds 0.5.
StatisticsOf(m, xs) ==
    LET n == Len(xs)
        D == CommonDen(xs, n)
        a == Numerators(xs)
        S == SumUpTo(a, n)
        squares == [i \in DOMAIN a |-> a[i] * a[i]]
        \* the population variance is (n * sum(a^2) - S^2) / (n * D)^2
        V == n * SumUpTo(squares, n) - S * S
        t == m.similarity_std
    IN  /\ m.message = "none"
        /\ m.total_queries = n
        /\ m.avg_similarity.den > 0
        /\ m.avg_similarity.num * n * D = S * m.avg_similarity.den
        /\ \E i \in DOMAIN xs : FracEq(m.min_similarity, xs[i])
        /\ \A i \in DOMAIN xs : ~FracLess(xs[i], m.min_similarity)
        /\ \E i \in DOMAIN xs : FracEq(m.max_similarity, xs[i])
        /\ \A i \in DOMAIN xs : ~FracLess(m.max_similarity, xs[i])
        /\ t >= 0
        /\ t * t * (n * D) * (n * D) <= 1000000 * V
        /\ 1000000 * V < (t + 1) * (t + 1) * (n * D) * (n * D)
        /\ m.performance_hint = "Good performance" <=> 2 * S > n * D
        /\ m.performance_hint # "Good performance"
               => m.performance_hint = "Consider adding more relevant documents"

\* The history 0.8, 0.6, 0.9, 0.3 of the specification's example.
ExampleHistory == <<LoggedQuery(8), LoggedQuery(6), LoggedQuery(9), LoggedQuery(3)>>

\* C14: for a history with at least one non-null score, get_system_metrics
\* reports the count, mean, minimum, maximum and population standard deviation
\* of the logged similarities and calls the system good exactly when the mean is
\* strictly greater than 0.5; the history 0.8, 0.6, 0.9, 0.3 gives mean 0.65,
\* minimum 0.3, maximum 0.9, standard deviation 0.229 and good.
C14_StatisticsReported ==
    [][\A r \in 1..MaxRequests :
          (MetricsStep(r) /\ LoggedScores # << >>) =>
              LET m == requests'[r].metrics
              IN  /\ StatisticsOf(m, LoggedScores)
                  /\ query_logs = ExampleHistory =>
                         /\ FracEq(m.avg_similarity, [num |-> 65, den |-> 100])
                         /\ FracEq(m.min_similarity, [num |-> 3, den |-> 10])
                         /\ FracEq(m.max_similarity, [num |-> 9, den |-> 10])
                         /\ m.similarity_std = 229
                         /\ m.performance_hint = "Good performance"]_vars

\* C14 witness: get_system_metrics has answered over the example history with
\* four queries and good performance.
C14_Witness ==
    /\ query_logs = ExampleHistory
    /\ \E r \in DOMAIN requests :
           /\ requests[r].kind = "metrics" /\ requests[r].pc = "done"
           /\ requests[r].metrics.total_queries = 4
           /\ requests[r].metrics.performance_hint = "Good performance"

\* Request r, a query, ends in this step.
QueryEnds(r) ==
    /\ r \in DOMAIN requests
    /\ requests[r].kind = "query"
    /\ requests[r].pc # "done"
    /\ requests'[r].pc = "done"

\* C15: the similarity history only grows at its end; a query that is answered
\* adds exactly one entry, the mean of the scores it retrieved; a query that
\* fails adds none; and no other step, of a query or of an ingestion, changes
\* the history.
C15_HistoryAppendOnly ==
    [][/\ Len(query_logs') >= Len(query_logs)
       /\ SubSeq(query_logs', 1, Len(query_logs)) = query_logs
       /\ \A r \in 1..MaxRequests :
              (QueryEnds(r) /\ requests'[r].status = 200) =>
                  LET scores == requests[r].found.scores
                      entry == query_logs'[Len(query_logs')]
                  IN  /\ Len(query_logs') = Len(query_logs) + 1
                      /\ entry.cosine_similarity.den > 0
                      /\ entry.cosine_similarity.num * Len(scores)
                             = SumUpTo(scores, Len(scores)) * entry.cosine_similarity.den
       /\ (~\E r \in 1..MaxRequests : QueryEnds(r) /\ requests'[r].status = 200)
              => query_logs' = query_logs]_vars

\* C15 witness: one query was answered and logged with the mean 2/3 of its
\* three scores, and another query failed and left the history at one entry.
C15_Witness ==
    /\ Len(query_logs) = 1
    /\ query_logs[1].cosine_similarity = [num |-> 2, den |-> 3]
    /\ \E q, f \in DOMAIN requests :
           /\ requests[q].kind = "query" /\ requests[q].status = 200
           /\ requests[f].kind = "query" /\ requests[f].status = 500

\* The positions of chunk_metadata that belong to the document of request r.
ChunksOfDocument(r) ==
    {i \in DOMAIN chunk_metadata :
        "doc_id" \in DOMAIN chunk_metadata[i] /\ chunk_metadata[i].doc_id = r}

\* The DocumentLog rows of the document of request r.
LogsOfDocument(r) == {i \in DOMAIN document_logs : document_logs[i].doc_id = r}

\* C17: an /ingest request that has ended in an error response has left nothing
\* in the stores, and every document of a finished request that has chunks in
\* chunk_metadata has exactly one DocumentLog row.
C17_IngestAllOrNothing ==
    \A r \in DOMAIN requests :
        (requests[r].kind = "ingest" /\ requests[r].pc = "done") =>
            /\ requests[r].status # 200 => ChunksOfDocument(r) = {}
            /\ ChunksOfDocument(r) # {} => Cardinality(LogsOfDocument(r)) = 1

InitChunker ==
    /\ target_chunk_size = DEFAULT_TARGET_CHUNK_SIZE
    /\ overlap_size = DEFAULT_OVERLAP_SIZE
    /\ chunks = << >>
    /\ split_outcome = "not_called"
    /\ chunk_sentences = << >>

InitRetriever ==
    /\ vector_index = NoIndex
    /\ stored_chunks = << >>
    /\ chunk_metadata = << >>
    /\ call = NoCall
    /\ result = NoResult

InitServer ==
    /\ requests = << >>
    /\ running = 0
    /\ query_logs = << >>
    /\ document_logs = << >>

\* The retriever as a library: any sequence of calls on a fresh DocumentRetriever.
Init == InitChunker /\ document_text = << >> /\ InitRetriever /\ InitServer
Next == BuildInitialIndex \/ AddDocumentChunks \/ FindRelevantChunks
Spec == Init /\ [][Next]_vars

\* The round trip: chunks added to a fresh DocumentRetriever, then searched
\* with their own texts.
NextRoundTrip == RoundTripAdd \/ RoundTripFind
SpecRoundTrip == Init /\ [][NextRoundTrip]_vars

\* The application: the retriever seeded with the example documents at import,
\* then requests handled by coroutines on one event loop.
InitSeededRetriever ==
    LET seeded == build_initial_index(NewDocumentRetriever,
                                      example_knowledge_base, ServerDim).self
    IN  /\ vector_index = seeded.vector_index
        /\ stored_chunks = seeded.stored_chunks
        /\ chunk_metadata = seeded.chunk_metadata
        /\ call = NoCall /\ result = NoResult
InitServerSpec ==
    InitChunker /\ document_text = << >> /\ InitSeededRetriever /\ InitServer
NextServer ==
    \/ Arrive
    \/ \E r \in 1..MaxRequests :
           \/ QueryFind(r) \/ QueryLogAndRespond(r)
           \/ UploadValidate(r) \/ UploadProcess(r) \/ UploadIndexAdd(r)
           \/ UploadAddChunks(r) \/ UploadAddMetadata(r) \/ UploadLogAndRespond(r)
           \/ GetSystemMetrics(r)
SpecServer == InitServerSpec /\ [][NextServer]_vars

\* get_system_metrics over a given table: a history of logged queries, and any
\* sequence of GET /metrics requests.
InitMetrics ==
    /\ InitChunker /\ document_text = << >> /\ InitSeededRetriever
    /\ requests = << >>
    /\ running = 0
    /\ query_logs \in Histories
    /\ document_logs = << >>
NextMetrics == ArriveMetrics \/ \E r \in 1..MaxRequests : GetSystemMetrics(r)
SpecMetrics == InitMetrics /\ [][NextMetrics]_vars

\* The chunker as a library: a document, and any sequence of constructions and
\* split calls on it.
InitChunkerSpec ==
    InitChunker /\ document_text \in Documents /\ InitRetriever /\ InitServer
NextChunker == NewChunker \/ SplitIntoChunks
SpecChunker == InitChunkerSpec /\ [][NextChunker]_vars

\* The sentence splitter as a library: a document, and any sequence of
\* constructions and split_by_sentences calls on it.
InitSentences ==
    InitChunker /\ document_text \in SentenceTexts /\ InitRetriever /\ InitServer
NextSentences == NewSentenceChunker \/ SplitBySentences
SpecSentences == InitSentences /\ [][NextSentences]_vars

====
